---- MODULE Spec2Model ----
(***************************************************************************)
(* Model of src/src/mm_fill_em.c (Goma, EM frequency-domain wave          *)
(* equations): assemble_emwave, apply_em_farfield_direct and               *)
(* complex_cross_vectors.                                                  *)
(*                                                                         *)
(* Numbers.  A C double is carried as an exact integer, a C complex as an  *)
(* exact complex rational <<re, im, d>> = (re + i*im)/d with d > 0 in      *)
(* lowest terms.  Rounding is not modelled.  A quotient with a zero        *)
(* divisor (IEEE inf or NaN) is carried as the non-finite value NonFinite, *)
(* which absorbs every later sum and product.                              *)
(***************************************************************************)
EXTENDS Integers, Sequences, FiniteSets, TLC

VARIABLES
    pd,       \* Problem Description: e, v, etm, Num_Dim, Num_Species_Eqn
    VIM,      \* number of vector components (global of the problem setup)
    af,       \* Action Flags: Assemble_Residual, Assemble_Jacobian
    fv,       \* Field Variables at the Gauss point
    bf,       \* Basis Functions at the Gauss point
    ei,       \* Element Indices: dof per variable
    upd,      \* Uniform Problem Description: ep, vp, Acoustic_Frequency
    mp,       \* Material Properties: permittivity
    xfem,     \* xfem pointer (null or not) and what xfem_dof_state reports
    mat,      \* what refractive_index / extinction_index return: n, k, d_n, d_k
    lec,      \* Local Element Contributions: R, J (the Local Accumulator)
    call,     \* the last assemble_emwave call: its arguments and its status
    func,     \* apply_em_farfield_direct: output func[DIM]
    d_func,   \* apply_em_farfield_direct: output d_func[DIM][var][MDE]
    bc,       \* the last apply_em_farfield_direct call, with what it computed
    v0, v1,   \* complex_cross_vectors: the two operands
    v2,       \* output buffer of complex_cross_vectors(v0, v1, v2)
    v2rev,    \* output buffer of complex_cross_vectors(v1, v0, v2rev)
    pc        \* marks of the running scenario: calls made, buffers dirty

vars == <<pd, VIM, af, fv, bf, ei, upd, mp, xfem, mat, lec, call,
          func, d_func, bc, v0, v1, v2, v2rev, pc>>

envVars    == <<pd, VIM, af, fv, bf, ei, upd, mp, xfem, mat>>
volVars    == <<lec, call>>
bcVars     == <<func, d_func, bc>>
crossVars  == <<v0, v1, v2, v2rev>>

----------------------------------------------------------------------------
(* Dimensions *)

\* DIM of std.h: the fixed array dimension of vectors.
DIM == 3

Dims == 0 .. (DIM - 1)

----------------------------------------------------------------------------
(* Algebra utilities *)

\* permute(i,j,k): the Levi-Civita symbol.
permute(i, j, k) ==
    IF i = j \/ j = k \/ k = i THEN 0
    ELSE IF <<i, j, k>> \in {<<0, 1, 2>>, <<1, 2, 0>>, <<2, 0, 1>>} THEN 1
    ELSE -1

\* delta(i,j): the Kronecker delta.
delta(i, j) == IF i = j THEN 1 ELSE 0

Abs(x) == IF x < 0 THEN -x ELSE x

RECURSIVE Gcd(_, _)
Gcd(a, b) == IF b = 0 THEN a ELSE Gcd(b, a % b)

----------------------------------------------------------------------------
(* C complex numbers, exact: <<re, im, d>> stands for (re + i*im)/d. *)

CNorm(re, im, d) ==
    LET g == Gcd(Gcd(Abs(re), Abs(im)), Abs(d))
        s == IF d < 0 THEN -1 ELSE 1
    IN  <<(s * re) \div g, (s * im) \div g, (s * d) \div g>>

Cpx(re, im)  == <<re, im, 1>>
CZero        == Cpx(0, 0)
CAdd(a, b)   == CNorm(a[1] * b[3] + b[1] * a[3], a[2] * b[3] + b[2] * a[3], a[3] * b[3])
CNeg(a)      == <<-a[1], -a[2], a[3]>>
CSub(a, b)   == CAdd(a, CNeg(b))
CMul(a, b)   == CNorm(a[1] * b[1] - a[2] * b[2], a[1] * b[2] + a[2] * b[1], a[3] * b[3])
CScale(s, a) == CNorm(s * a[1], s * a[2], a[3])
\* a / b for b # 0: a * conj(b) / |b|^2
CDiv(a, b)   ==
    CNorm((a[1] * b[1] + a[2] * b[2]) * b[3],
          (a[2] * b[1] - a[1] * b[2]) * b[3],
          a[3] * (b[1] * b[1] + b[2] * b[2]))
\* creal, cimag: a real rational <<n, d>> in lowest terms
RNorm(n, d)  == LET g == Gcd(Abs(n), Abs(d)) IN <<n \div g, d \div g>>
creal(a)     == RNorm(a[1], a[3])
cimag(a)     == RNorm(a[2], a[3])

RAdd(a, b)   == RNorm(a[1] * b[2] + b[1] * a[2], a[2] * b[2])
RScale(s, a) == RNorm(s * a[1], a[2])

\* The square root of a perfect square.
ISqrt(n) == CHOOSE r \in 0 .. n : r * r = n

\* csqrt: the principal square root (real part >= 0) of z = (x + i*y)/d,
\* sqrt((|z| + Re z)/2) + i*sgn(y)*sqrt((|z| - Re z)/2), for the z whose root
\* is a complex rational.
Csqrt(z) ==
    LET x == z[1]
        y == z[2]
        d == z[3]
        m == ISqrt(x * x + y * y)
    IN  CNorm(ISqrt((m + x) * 2 * d),
              (IF y < 0 THEN -1 ELSE 1) * ISqrt((m - x) * 2 * d),
              2 * d)

CVecNeg(v) == [k \in Dims |-> CNeg(v[k])]

----------------------------------------------------------------------------
(* complex_cross_vectors *)

ZeroBuffer == [k \in Dims |-> CZero]

\* memset(v2, 0, DIM * sizeof(complex)): what the buffer holds afterwards.
MemsetZero_skipped(buf) == buf
MemsetZero(buf) == ZeroBuffer

\* The i, j loops accumulated into component k of the buffer.
CrossAccumulate(a, b, buf) ==
    [k \in Dims |->
        LET term(i, j) == CScale(permute(i, j, k), CMul(a[i], b[j]))
            row(i)     == CAdd(CAdd(term(i, 0), term(i, 1)), term(i, 2))
        IN  CAdd(buf[k], CAdd(CAdd(row(0), row(1)), row(2)))]

\* complex_cross_vectors(v0, v1, v2): the contents of v2 on return.
complex_cross_vectors(a, b, buf) == CrossAccumulate(a, b, MemsetZero(buf))

----------------------------------------------------------------------------
(* Variables and equations (rf_fem_const.h numbering: an equation has the  *)
(* number of its variable, and the components of a vector variable are     *)
(* consecutive).                                                           *)

VarOrder ==
    <<"PRESSURE", "TEMPERATURE", "MASS_FRACTION",
      "MESH_DISPLACEMENT1", "MESH_DISPLACEMENT2", "MESH_DISPLACEMENT3",
      "EM_E1_REAL", "EM_E2_REAL", "EM_E3_REAL",
      "EM_E1_IMAG", "EM_E2_IMAG", "EM_E3_IMAG",
      "EM_H1_REAL", "EM_H2_REAL", "EM_H3_REAL",
      "EM_H1_IMAG", "EM_H2_IMAG", "EM_H3_IMAG">>

Vars == {VarOrder[x] : x \in DOMAIN VarOrder}

VarIndexOf == [var \in Vars |-> CHOOSE x \in DOMAIN VarOrder : VarOrder[x] = var]
VarIndex(var) == VarIndexOf[var]

\* var + b in the C enumeration
VarPlus(var, b) == VarOrder[VarIndex(var) + b]

EMVars == {"EM_E1_REAL", "EM_E2_REAL", "EM_E3_REAL",
           "EM_E1_IMAG", "EM_E2_IMAG", "EM_E3_IMAG",
           "EM_H1_REAL", "EM_H2_REAL", "EM_H3_REAL",
           "EM_H1_IMAG", "EM_H2_IMAG", "EM_H3_IMAG"}

\* The term bits of pd->e[eqn]; pd->e[eqn] is carried as the set of bits set.
Terms == {"T_SOMETHING", "T_ADVECTION", "T_DIFFUSION"}

\* MDE: the dof dimension of lec->R, lec->J and d_func.
MDE == 3

Dofs == 0 .. (MDE - 1)

\* MAX_CONC: the number of species blocks carried after MAX_PROB_VAR.
MAX_CONC == 2

\* The column blocks of lec->J: upd->vp[var] for a variable, MAX_PROB_VAR + w
\* for species w.
SpeciesCol(w) == <<"MAX_PROB_VAR+", w>>
VarCol(var)   == <<var, 0>>
ColVars == Vars \ {"PRESSURE", "MASS_FRACTION"}
Cols == {VarCol(var) : var \in ColVars} \cup {SpeciesCol(w) : w \in 0 .. (MAX_CONC - 1)}

\* The equations assemble_emwave is called for in this model, and their rows.
CallEqns == {"EM_E2_REAL", "EM_H3_IMAG"}
Rows == {0, 1}

----------------------------------------------------------------------------
(* The element, problem and material state the routines read.  It is set   *)
(* up by the caller; the model starts from one of a few set-ups.           *)

AllVarsActive == [var \in Vars |-> 1]

SomeVarsActive ==
    [var \in Vars |->
        IF var \in {"EM_E1_REAL", "EM_E3_REAL", "EM_E2_IMAG", "EM_H1_REAL",
                    "EM_H2_REAL", "EM_H3_REAL", "EM_H2_IMAG", "EM_H3_IMAG",
                    "MESH_DISPLACEMENT2", "MASS_FRACTION"}
        THEN 1 ELSE 0]

EtmOf(adv, diff) ==
    [eqn \in CallEqns |->
        [t \in Terms |-> IF t = "T_ADVECTION" THEN adv
                         ELSE IF t = "T_DIFFUSION" THEN diff ELSE 1]]

NoXfem == [null |-> TRUE, inactive_extended |-> [eqn \in CallEqns |-> {}]]

\* A set-up of pd, VIM, ei, upd and xfem.
Problems ==
    { [ pd |-> [ e |-> [eqn \in CallEqns |->
                          IF eqn = "EM_E2_REAL"
                          THEN {"T_SOMETHING", "T_ADVECTION", "T_DIFFUSION"} ELSE {}],
                 v |-> AllVarsActive, etm |-> EtmOf(2, 3),
                 Num_Dim |-> 3, Num_Species_Eqn |-> 2 ],
        VIM |-> 3,
        dof |-> [var \in Vars |-> 2],
        ep |-> [eqn \in CallEqns |-> IF eqn = "EM_E2_REAL" THEN 0 ELSE 1],
        xfem |-> NoXfem ],
      [ pd |-> [ e |-> [eqn \in CallEqns |->
                          IF eqn = "EM_E2_REAL"
                          THEN {"T_SOMETHING", "T_ADVECTION"}
                          ELSE {"T_SOMETHING", "T_DIFFUSION"}],
                 v |-> SomeVarsActive, etm |-> EtmOf(1, 1),
                 Num_Dim |-> 2, Num_Species_Eqn |-> 1 ],
        VIM |-> 3,
        dof |-> [var \in Vars |-> IF var \in {"EM_H1_REAL", "EM_H2_REAL", "EM_H3_REAL",
                                              "EM_H1_IMAG", "EM_H2_IMAG", "EM_H3_IMAG"}
                                  THEN 1 ELSE 2],
        ep |-> [eqn \in CallEqns |-> IF eqn = "EM_E2_REAL" THEN 1 ELSE 0],
        xfem |-> NoXfem ],
      [ pd |-> [ e |-> [eqn \in CallEqns |->
                          IF eqn = "EM_E2_REAL"
                          THEN {"T_SOMETHING"}
                          ELSE {"T_SOMETHING", "T_ADVECTION", "T_DIFFUSION"}],
                 v |-> AllVarsActive, etm |-> EtmOf(1, 2),
                 Num_Dim |-> 3, Num_Species_Eqn |-> 1 ],
        VIM |-> 3,
        dof |-> [var \in Vars |-> IF var = "TEMPERATURE" THEN 1 ELSE 2],
        ep |-> [eqn \in CallEqns |-> IF eqn = "EM_E2_REAL" THEN 0 ELSE 1],
        xfem |-> [null |-> FALSE,
                  inactive_extended |-> [eqn \in CallEqns |-> {1}]] ] }

\* Basis function values and geometric sensitivities at a Gauss point.
BasisOf(s) ==
    [ phi |-> [var \in Vars |-> [j \in Dofs |-> 1 + ((VarIndex(var) + j + s) % 3)]],
      detJ |-> [eqn \in CallEqns |-> 2 + s],
      grad_phi |-> [eqn \in CallEqns |->
                      [i \in Dofs |-> [p \in Dims |-> (i + 1) * (p + 1) - 3 + s]]],
      d_det_J_dm |-> [eqn \in CallEqns |-> [b \in Dims |-> [j \in Dofs |-> b - j + s]]],
      d_grad_phi_dmesh |->
          [eqn \in CallEqns |->
              [i \in Dofs |-> [p \in Dims |-> [b \in Dims |-> [j \in Dofs |->
                  ((i + 2 * p + b - j) % 3) - s]]]]] ]

\* What refractive_index(d_n, time) and extinction_index(d_k, time) deliver.
SensitivityOf(s) ==
    [ T |-> [j \in Dofs |-> j + s],
      X |-> [b \in Dims |-> [j \in Dofs |-> b - j - s]],
      C |-> [w \in 0 .. (MAX_CONC - 1) |-> [j \in Dofs |-> w + j + s - 1]] ]

\* A set-up of fv, bf, mp and the material model at the Gauss point.
GaussPoints ==
    { [ fv |-> [ wt |-> 1, h3 |-> 2,
                 em_er |-> [p \in Dims |-> p + 1], em_ei |-> [p \in Dims |-> 2 - 3 * p],
                 em_hr |-> [p \in Dims |-> 2 * p - 1], em_hi |-> [p \in Dims |-> 3 - p * p],
                 dh3dq |-> [p \in Dims |-> p - 1],
                 snormal |-> [p \in Dims |-> IF p = 0 THEN 1 ELSE 0] ],
        bf |-> BasisOf(0),
        mp |-> [permittivity |-> 14],
        mat |-> [n |-> 2, k |-> 1, d_n |-> SensitivityOf(1), d_k |-> SensitivityOf(0)],
        omega |-> 1 ],
      [ fv |-> [ wt |-> 2, h3 |-> 1,
                 em_er |-> [p \in Dims |-> 2 - p], em_ei |-> [p \in Dims |-> p * p - 1],
                 em_hr |-> [p \in Dims |-> 3 - 2 * p], em_hi |-> [p \in Dims |-> p + 2],
                 dh3dq |-> [p \in Dims |-> 1 - p],
                 snormal |-> [p \in Dims |-> IF p = 1 THEN 1 ELSE 0] ],
        bf |-> BasisOf(1),
        mp |-> [permittivity |-> 56],
        mat |-> [n |-> 1, k |-> 0, d_n |-> SensitivityOf(0), d_k |-> SensitivityOf(1)],
        omega |-> 2 ] }

ActionFlags ==
    { [Assemble_Residual |-> r, Assemble_Jacobian |-> j] : r, j \in BOOLEAN }

\* The lossless vacuum-like medium: n = 1, k = 0, omega = 1 and unit base
\* permittivity.
UnitGaussPoint ==
    [ fv |-> [ wt |-> 1, h3 |-> 1,
               em_er |-> [p \in Dims |-> p + 2], em_ei |-> [p \in Dims |-> 1 - 2 * p],
               em_hr |-> [p \in Dims |-> p - 2], em_hi |-> [p \in Dims |-> 2 * p + 1],
               dh3dq |-> [p \in Dims |-> p],
               snormal |-> [p \in Dims |-> IF p = 2 THEN 1 ELSE 0] ],
      bf |-> BasisOf(2),
      mp |-> [permittivity |-> 1],
      mat |-> [n |-> 1, k |-> 0, d_n |-> SensitivityOf(1), d_k |-> SensitivityOf(2)],
      omega |-> 1 ]

\* The element of the vacuum example: every term of EM_E2_REAL and every
\* variable active.
VacuumProblems == {prob \in Problems : prob.pd.e["EM_E2_REAL"] = Terms}

InitEnvOf(problems, points) ==
    /\ \E prob \in problems :
          /\ pd = prob.pd
          /\ VIM = prob.VIM
          /\ ei = [dof |-> prob.dof]
          /\ xfem = prob.xfem
          /\ \E g \in points :
                /\ fv = g.fv
                /\ bf = g.bf
                /\ mp = g.mp
                /\ mat = g.mat
                /\ upd = [ep |-> prob.ep, vp |-> [var \in ColVars |-> VarCol(var)],
                          Acoustic_Frequency |-> g.omega]
    /\ af \in ActionFlags

\* The set-ups whose impedances sqrt(mu/eps) are complex rationals.
InitEnv == InitEnvOf(Problems, GaussPoints)

----------------------------------------------------------------------------
(* Doubles that may be non-finite: <<x>> is the finite value x, <<>> is    *)
(* inf or NaN.                                                             *)

NonFinite   == <<>>
Fin(x)      == <<x>>
IsFinite(a) == Len(a) = 1
FAdd(a, b)  == IF IsFinite(a) /\ IsFinite(b) THEN <<a[1] + b[1]>> ELSE NonFinite
FMul(a, b)  == IF IsFinite(a) /\ IsFinite(b) THEN <<a[1] * b[1]>> ELSE NonFinite
\* a / b; the set-ups keep every quotient with a nonzero divisor integral
FDiv(a, b)  ==
    IF IsFinite(a) /\ IsFinite(b) /\ b[1] # 0 THEN <<a[1] \div b[1]>> ELSE NonFinite

\* The value of an integral rational <<n, d>>.
Dbl(r) == r[1] \div r[2]

----------------------------------------------------------------------------
(* assemble_emwave *)

mag_permeability == 14   \* the literal 1.4e-07, in units of 1e-8

\* cpx_permittivity = SQUARE(n + I*k) * mp->permittivity
cpx_permittivity ==
    CScale(mp.permittivity, CMul(Cpx(mat.n, mat.k), Cpx(mat.n, mat.k)))

\* The first switch(em_var): EMF, EMF_conj and dir; the default case is an
\* error.
FieldSelect(em_var) ==
    CASE em_var = "EM_E1_REAL" -> [ok |-> TRUE, EMF |-> fv.em_er[0], EMF_conj |-> fv.em_ei[0], dir |-> 0]
      [] em_var = "EM_E1_IMAG" -> [ok |-> TRUE, EMF |-> fv.em_ei[0], EMF_conj |-> fv.em_er[0], dir |-> 0]
      [] em_var = "EM_E2_REAL" -> [ok |-> TRUE, EMF |-> fv.em_er[1], EMF_conj |-> fv.em_ei[1], dir |-> 1]
      [] em_var = "EM_E2_IMAG" -> [ok |-> TRUE, EMF |-> fv.em_ei[1], EMF_conj |-> fv.em_er[1], dir |-> 1]
      [] em_var = "EM_E3_REAL" -> [ok |-> TRUE, EMF |-> fv.em_er[2], EMF_conj |-> fv.em_ei[2], dir |-> 2]
      [] em_var = "EM_E3_IMAG" -> [ok |-> TRUE, EMF |-> fv.em_ei[2], EMF_conj |-> fv.em_er[2], dir |-> 2]
      [] em_var = "EM_H1_REAL" -> [ok |-> TRUE, EMF |-> fv.em_hr[0], EMF_conj |-> fv.em_hi[0], dir |-> 0]
      [] em_var = "EM_H1_IMAG" -> [ok |-> TRUE, EMF |-> fv.em_hi[0], EMF_conj |-> fv.em_hr[0], dir |-> 0]
      [] em_var = "EM_H2_REAL" -> [ok |-> TRUE, EMF |-> fv.em_hr[1], EMF_conj |-> fv.em_hi[1], dir |-> 1]
      [] em_var = "EM_H2_IMAG" -> [ok |-> TRUE, EMF |-> fv.em_hi[1], EMF_conj |-> fv.em_hr[1], dir |-> 1]
      [] em_var = "EM_H3_REAL" -> [ok |-> TRUE, EMF |-> fv.em_hr[2], EMF_conj |-> fv.em_hi[2], dir |-> 2]
      [] em_var = "EM_H3_IMAG" -> [ok |-> TRUE, EMF |-> fv.em_hi[2], EMF_conj |-> fv.em_hr[2], dir |-> 2]
      [] OTHER -> [ok |-> FALSE, EMF |-> 0, EMF_conj |-> 0, dir |-> 0]

\* The second switch(em_var): the coupling coefficients, their n and k
\* derivatives, and the cross field; the default case is an error.
Coefficients_real_case_for_all(em_var) ==
    LET omega == upd.Acoustic_Frequency
        re    == Dbl(creal(cpx_permittivity))
        im    == Dbl(cimag(cpx_permittivity))
    IN  [ ok |-> em_var \in EMVars, emf_coeff |-> omega * im, conj_coeff |-> omega * re,
          emf_coeff_dn |-> FDiv(Fin(omega * im), Fin(mat.n)),
          emf_coeff_dk |-> FDiv(Fin(omega * im), Fin(mat.k)),
          conj_coeff_dn |-> FDiv(Fin(omega * re), Fin(mat.n)),
          conj_coeff_dk |-> FDiv(Fin(omega * re), Fin(mat.k)),
          cross_field_var |-> "EM_H1_REAL", cross_field |-> fv.em_hr ]
Coefficients(em_var) ==
    LET omega == upd.Acoustic_Frequency
        re    == Dbl(creal(cpx_permittivity))
        im    == Dbl(cimag(cpx_permittivity))
        n     == Fin(mat.n)
        k     == Fin(mat.k)
    IN  CASE em_var \in {"EM_E1_REAL", "EM_E2_REAL", "EM_E3_REAL"} ->
               [ ok |-> TRUE, emf_coeff |-> omega * im, conj_coeff |-> omega * re,
                 emf_coeff_dn |-> FDiv(Fin(omega * im), n),
                 emf_coeff_dk |-> FDiv(Fin(omega * im), k),
                 conj_coeff_dn |-> FDiv(Fin(omega * re), n),
                 conj_coeff_dk |-> FDiv(Fin(omega * re), k),
                 cross_field_var |-> "EM_H1_REAL", cross_field |-> fv.em_hr ]
          [] em_var \in {"EM_E1_IMAG", "EM_E2_IMAG", "EM_E3_IMAG"} ->
               [ ok |-> TRUE, emf_coeff |-> omega * im, conj_coeff |-> (-omega) * re,
                 emf_coeff_dn |-> FDiv(Fin(omega * im), n),
                 emf_coeff_dk |-> FDiv(Fin(omega * im), k),
                 conj_coeff_dn |-> FDiv(Fin((-omega) * re), n),
                 conj_coeff_dk |-> FDiv(Fin(omega * re), k),
                 cross_field_var |-> "EM_H1_IMAG", cross_field |-> fv.em_hi ]
          [] em_var \in {"EM_H1_REAL", "EM_H2_REAL", "EM_H3_REAL"} ->
               [ ok |-> TRUE, emf_coeff |-> 0, conj_coeff |-> (-omega) * mag_permeability,
                 emf_coeff_dn |-> Fin(0), emf_coeff_dk |-> Fin(0),
                 conj_coeff_dn |-> Fin(0), conj_coeff_dk |-> Fin(0),
                 cross_field_var |-> "EM_E1_REAL", cross_field |-> fv.em_er ]
          [] em_var \in {"EM_H1_IMAG", "EM_H2_IMAG", "EM_H3_IMAG"} ->
               [ ok |-> TRUE, emf_coeff |-> 0, conj_coeff |-> omega * mag_permeability,
                 emf_coeff_dn |-> Fin(0), emf_coeff_dk |-> Fin(0),
                 conj_coeff_dn |-> Fin(0), conj_coeff_dk |-> Fin(0),
                 cross_field_var |-> "EM_E1_IMAG", cross_field |-> fv.em_ei ]
          [] OTHER ->
               [ ok |-> FALSE, emf_coeff |-> 0, conj_coeff |-> 0,
                 emf_coeff_dn |-> Fin(0), emf_coeff_dk |-> Fin(0),
                 conj_coeff_dn |-> Fin(0), conj_coeff_dk |-> Fin(0),
                 cross_field_var |-> "EM_E1_REAL", cross_field |-> fv.em_er ]

\* The xfem optimisation: if ( extended_dof && !xfem_active ) continue;
XfemSkips(eqn, i) == (~xfem.null) /\ i \in xfem.inactive_extended[eqn]

\* The i loops visit test function i: i < ei->dof[eqn] and not skipped.
Visits(eqn, i) == i < ei.dof[eqn] /\ ~XfemSkips(eqn, i)

\* grad_phi_i[p]: zeroed on entry, loaded for p < VIM.
GradPhiI(eqn, i, p) == IF p < VIM THEN bf.grad_phi[eqn][i][p] ELSE 0

HasTerm(eqn, t) == t \in pd.e[eqn]

\* The vector components below n, summed.
SumBelow(n, f(_)) ==
    (IF 0 < n THEN f(0) ELSE 0) + (IF 1 < n THEN f(1) ELSE 0) + (IF 2 < n THEN f(2) ELSE 0)

\* The scale factors at the Gauss point for equation eqn.
det_J(eqn) == bf.detJ[eqn]

\* x += y on a double known to be finite, and on one that may not be.
Accumulate_overwrites(old, add) == add
Accumulate(old, add) == old + add
AccumulateJ(old, add) == FAdd(old, add)

\* Residual: the advection term of test function i.  c is the call:
\* eqn, em_var, em_conjvar, sel (FieldSelect) and co (Coefficients).
ResidualAdvection_no_conj(c, i) ==
    IF HasTerm(c.eqn, "T_ADVECTION")
    THEN (c.co.emf_coeff * c.sel.EMF)
            * (bf.phi[c.eqn][i] * fv.h3) * (det_J(c.eqn) * fv.wt)
            * pd.etm[c.eqn]["T_ADVECTION"]
    ELSE 0
ResidualAdvection(c, i) ==
    IF HasTerm(c.eqn, "T_ADVECTION")
    THEN (c.co.emf_coeff * c.sel.EMF + c.co.conj_coeff * c.sel.EMF_conj)
            * (bf.phi[c.eqn][i] * fv.h3) * (det_J(c.eqn) * fv.wt)
            * pd.etm[c.eqn]["T_ADVECTION"]
    ELSE 0

\* Residual: the diffusion (curl) term of test function i.
ResidualDiffusion(c, i) ==
    IF HasTerm(c.eqn, "T_DIFFUSION")
    THEN LET curl(p) ==
                 SumBelow(VIM, LAMBDA q : permute(p, q, c.sel.dir)
                                            * GradPhiI(c.eqn, i, p) * c.co.cross_field[q])
         IN  (0 - SumBelow(VIM, curl))
                * (det_J(c.eqn) * fv.wt) * fv.h3 * pd.etm[c.eqn]["T_DIFFUSION"]
    ELSE 0

\* lec->R after the residual loop.
ResidualLoop(R, c) ==
    [row \in Rows |-> [i \in Dofs |->
        IF row = upd.ep[c.eqn] /\ Visits(c.eqn, i)
        THEN Accumulate(R[row][i], ResidualAdvection(c, i) + ResidualDiffusion(c, i))
        ELSE R[row][i]]]

----------------------------------------------------------------------------
(* assemble_emwave: the Jacobian blocks.  Each block operator gives what   *)
(* the block adds to lec->J[peqn][pvar][i][j]; AddBlock is its j loop      *)
(* under the variable-active test, for every test function i the i loop    *)
(* visits.  The code runs the blocks inside one i loop; with exact sums    *)
(* the result is the same block after block.                               *)

AddBlock(J, c, active, col, ndof, incr(_, _)) ==
    IF ~active THEN J
    ELSE [J EXCEPT ![upd.ep[c.eqn]][col] =
            [i \in Dofs |-> [j \in Dofs |->
                IF Visits(c.eqn, i) /\ j < ndof
                THEN AccumulateJ(@[i][j], incr(i, j))
                ELSE @[i][j]]]]

\* The block of variable var: if ( pd->v[var] ) { pvar = upd->vp[var];
\* for ( j=0; j<ei->dof[var]; j++) ... }
AddVarBlock(J, c, var, incr(_, _)) ==
    IF pd.v[var] = 0 THEN J
    ELSE AddBlock(J, c, TRUE, upd.vp[var], ei.dof[var], incr)

\* EMF: with respect to em_var.
JacobianEmf(c, i, j) ==
    IF HasTerm(c.eqn, "T_ADVECTION")
    THEN Fin(bf.phi[c.eqn][i] * c.co.emf_coeff * bf.phi[c.em_var][j] * det_J(c.eqn) * fv.wt
                * fv.h3 * pd.etm[c.eqn]["T_ADVECTION"])
    ELSE Fin(0)

\* EMF_conj: with respect to em_conjvar.
JacobianConj(c, i, j) ==
    IF HasTerm(c.eqn, "T_ADVECTION")
    THEN Fin(bf.phi[c.eqn][i] * c.co.conj_coeff * bf.phi[c.em_conjvar][j] * det_J(c.eqn)
                * fv.wt * fv.h3 * pd.etm[c.eqn]["T_ADVECTION"])
    ELSE Fin(0)

\* cross_field: with respect to component b of the cross field (nothing is
\* added without the diffusion term).
JacobianCross(c, b, i, j) ==
    LET var == VarPlus(c.co.cross_field_var, b)
    IN  IF HasTerm(c.eqn, "T_DIFFUSION")
        THEN LET curl(p) ==
                     SumBelow(VIM, LAMBDA q : permute(p, q, c.sel.dir)
                                                * GradPhiI(c.eqn, i, p) * delta(q, b)
                                                * bf.phi[var][j])
             IN  Fin((0 - SumBelow(VIM, curl))
                        * (det_J(c.eqn) * fv.wt) * fv.h3 * pd.etm[c.eqn]["T_DIFFUSION"])
        ELSE Fin(0)

\* EMF*(emf_coeff_dn*dn + emf_coeff_dk*dk) + EMF_conj*(conj_coeff_dn*dn + conj_coeff_dk*dk)
CoeffSensitivity(c, dn, dk) ==
    FAdd(FMul(Fin(c.sel.EMF),
              FAdd(FMul(c.co.emf_coeff_dn, Fin(dn)), FMul(c.co.emf_coeff_dk, Fin(dk)))),
         FMul(Fin(c.sel.EMF_conj),
              FAdd(FMul(c.co.conj_coeff_dn, Fin(dn)), FMul(c.co.conj_coeff_dk, Fin(dk)))))

\* J_e_T: with respect to temperature.
JacobianTemperature(c, i, j) ==
    IF HasTerm(c.eqn, "T_ADVECTION")
    THEN FMul(FMul(Fin(bf.phi[c.eqn][i]), CoeffSensitivity(c, mat.d_n.T[j], mat.d_k.T[j])),
              Fin(det_J(c.eqn) * fv.wt * fv.h3 * pd.etm[c.eqn]["T_ADVECTION"]))
    ELSE Fin(0)

\* J_e_d: with respect to mesh displacement component b.
JacobianMesh(c, b, i, j) ==
    LET var             == VarPlus("MESH_DISPLACEMENT1", b)
        eqn             == c.eqn
        phi_i           == bf.phi[eqn][i]
        h3              == fv.h3
        wt              == fv.wt
        dh3dmesh_bj     == fv.dh3dq[b] * bf.phi[var][j]
        d_det_J_dmeshbj == bf.d_det_J_dm[eqn][b][j]
        advection ==
            IF HasTerm(eqn, "T_ADVECTION")
            THEN FMul(FAdd(FMul(FMul(Fin(phi_i),
                                     CoeffSensitivity(c, mat.d_n.X[b][j], mat.d_k.X[b][j])),
                                Fin(det_J(eqn) * h3 * wt)),
                           Fin(phi_i * (c.co.emf_coeff * c.sel.EMF
                                          + c.co.conj_coeff * c.sel.EMF_conj)
                                  * (d_det_J_dmeshbj * h3 + det_J(eqn) * dh3dmesh_bj) * wt)),
                      Fin(pd.etm[eqn]["T_ADVECTION"]))
            ELSE Fin(0)
        diff_a == SumBelow(pd.Num_Dim, LAMBDA p : bf.d_grad_phi_dmesh[eqn][i][p][b][j])
                     * det_J(eqn) * h3 * wt
        diff_b == SumBelow(VIM, LAMBDA p : GradPhiI(eqn, i, p)) * det_J(eqn) * h3 * wt
        diff_c == SumBelow(pd.Num_Dim, LAMBDA p : GradPhiI(eqn, i, p))
                     * d_det_J_dmeshbj * h3 * wt
        diff_d == SumBelow(pd.Num_Dim, LAMBDA p : GradPhiI(eqn, i, p))
                     * det_J(eqn) * dh3dmesh_bj * wt
        diffusion ==
            IF HasTerm(eqn, "T_DIFFUSION")
            THEN (diff_a + diff_b + diff_c + diff_d) * pd.etm[eqn]["T_DIFFUSION"]
            ELSE 0
    IN  FAdd(advection, Fin(diffusion))

\* J_e_c: with respect to species w.
JacobianSpecies(c, w, i, j) ==
    IF HasTerm(c.eqn, "T_ADVECTION")
    THEN FMul(FMul(Fin(bf.phi[c.eqn][i]),
                   CoeffSensitivity(c, mat.d_n.C[w][j], mat.d_k.C[w][j])),
              Fin(det_J(c.eqn) * fv.wt * fv.h3 * pd.etm[c.eqn]["T_ADVECTION"]))
    ELSE Fin(0)

\* for ( b=0; b<dim; b++) over the cross field components, from b on.
RECURSIVE CrossBlocks(_, _, _)
CrossBlocks(J, c, b) ==
    IF b >= pd.Num_Dim THEN J
    ELSE CrossBlocks(AddVarBlock(J, c, VarPlus(c.co.cross_field_var, b),
                                 LAMBDA i, j : JacobianCross(c, b, i, j)),
                     c, b + 1)

\* for ( b=0; b<dim; b++) over the mesh displacement components, from b on.
RECURSIVE MeshBlocks(_, _, _)
MeshBlocks(J, c, b) ==
    IF b >= pd.Num_Dim THEN J
    ELSE MeshBlocks(AddVarBlock(J, c, VarPlus("MESH_DISPLACEMENT1", b),
                                LAMBDA i, j : JacobianMesh(c, b, i, j)),
                    c, b + 1)

\* for ( w=0; w<pd->Num_Species_Eqn; w++) into column MAX_PROB_VAR + w, from w on.
RECURSIVE SpeciesBlocks(_, _, _)
SpeciesBlocks(J, c, w) ==
    IF w >= pd.Num_Species_Eqn THEN J
    ELSE SpeciesBlocks(AddBlock(J, c, pd.e[c.eqn] # {} /\ pd.v["MASS_FRACTION"] # 0,
                                SpeciesCol(w), ei.dof["MASS_FRACTION"],
                                LAMBDA i, j : JacobianSpecies(c, w, i, j)),
                       c, w + 1)

\* lec->J after the Jacobian loop.
JacobianLoop(J, c) ==
    LET J1 == AddVarBlock(J, c, c.em_var, LAMBDA i, j : JacobianEmf(c, i, j))
        J2 == AddVarBlock(J1, c, c.em_conjvar, LAMBDA i, j : JacobianConj(c, i, j))
        J3 == CrossBlocks(J2, c, 0)
        J4 == AddVarBlock(J3, c, "TEMPERATURE", LAMBDA i, j : JacobianTemperature(c, i, j))
        J5 == MeshBlocks(J4, c, 0)
    IN  SpeciesBlocks(J5, c, 0)

\* EH(-1, ...); return -1;  in the default case of a switch(em_var).
InvalidSelector_returns_success(em_var) == 0
InvalidSelector(em_var) == -1

\* if ( ! pd->e[eqn] ) return(status);
BailOut_never(eqn) == FALSE
BailOut(eqn) == pd.e[eqn] = {}

\* assemble_emwave(time, tt, dt, pg_data, em_eqn, em_var, em_conjvar) called
\* with the accumulator holding l: the status returned and lec on return.
assemble_emwave(l, em_eqn, em_var, em_conjvar) ==
    LET sel == FieldSelect(em_var)
        co  == Coefficients(em_var)
        c   == [eqn |-> em_eqn, em_var |-> em_var, em_conjvar |-> em_conjvar,
                sel |-> sel, co |-> co]
    IN  IF BailOut(em_eqn) THEN [status |-> 0, lec |-> l]
        ELSE IF ~sel.ok THEN [status |-> InvalidSelector(em_var), lec |-> l]
        ELSE IF ~co.ok THEN [status |-> InvalidSelector(em_var), lec |-> l]
        ELSE [status |-> 0,
              lec |-> [R |-> IF af.Assemble_Residual THEN ResidualLoop(l.R, c) ELSE l.R,
                       J |-> IF af.Assemble_Jacobian THEN JacobianLoop(l.J, c) ELSE l.J]]

----------------------------------------------------------------------------
(* The volume assembly scenario: calls of assemble_emwave on one Local     *)
(* Accumulator.                                                            *)

\* How many assemble_emwave calls a behaviour makes.
MaxCalls == 2

\* The selectors the calls are made with: the twelve EM variables and one
\* variable that is not an EM variable.
CallVars == EMVars \cup {"PRESSURE"}

\* The em_conjvar a call may pass with em_var: EM_E2_IMAG, and for the
\* variables of the two equations also EM_H3_REAL.
ConjVars(em_var) ==
    IF em_var \in CallEqns THEN {"EM_E2_IMAG", "EM_H3_REAL"} ELSE {"EM_E2_IMAG"}

\* The accumulator as the framework hands it over: zero-initialised.
LecZero ==
    [ R |-> [row \in Rows |-> [i \in Dofs |-> 0]],
      J |-> [row \in Rows |-> [col \in Cols |-> [i \in Dofs |-> [j \in Dofs |-> Fin(0)]]]] ]

NoCall == [n |-> 0, em_eqn |-> "none", em_var |-> "none", em_conjvar |-> "none",
           status |-> 0]

IdleEnv ==
    /\ pd = <<>> /\ VIM = DIM /\ af = <<>> /\ fv = <<>> /\ bf = <<>> /\ ei = <<>>
    /\ upd = <<>> /\ mp = <<>> /\ xfem = <<>> /\ mat = <<>>
IdleVolume == lec = LecZero /\ call = NoCall
IdleBoundary == func = <<>> /\ d_func = <<>> /\ bc = <<>>
IdleCross == v0 = <<>> /\ v1 = <<>> /\ v2 = <<>> /\ v2rev = <<>>

Init ==
    /\ \/ InitEnvOf(Problems, GaussPoints)
       \/ InitEnvOf(VacuumProblems, {UnitGaussPoint})
    /\ IdleVolume
    /\ IdleBoundary
    /\ IdleCross
    /\ pc = {}

AssembleEmwave ==
    /\ call.n < MaxCalls
    /\ \E em_eqn \in CallEqns, em_var \in CallVars :
       \E em_conjvar \in ConjVars(em_var) :
          \E r \in {assemble_emwave(lec, em_eqn, em_var, em_conjvar)} :
              /\ lec' = r.lec
              /\ call' = [n |-> call.n + 1, em_eqn |-> em_eqn, em_var |-> em_var,
                          em_conjvar |-> em_conjvar, status |-> r.status]
    /\ UNCHANGED <<envVars, bcVars, crossVars, pc>>

Next == AssembleEmwave

Spec == Init /\ [][Next]_vars

----------------------------------------------------------------------------
(* Claims about assemble_emwave, checked under Spec.                       *)

\* A step is a call of assemble_emwave; call' holds its arguments and status.
IsCall == call'.n = call.n + 1

\* C1: a call for an equation that is inactive (pd->e[em_eqn] is 0) returns
\* status 0 and leaves every entry of lec->R and lec->J as it was, whatever
\* em_var, em_conjvar and the Assemble_Residual / Assemble_Jacobian flags are.
C1_InactiveNoOp ==
    [][ (IsCall /\ pd.e[call'.em_eqn] = {}) => (call'.status = 0 /\ lec' = lec) ]_vars

\* C1 witness: an inactive-equation call with an em_var that is no EM
\* variable has returned 0 on an accumulator that holds contributions.
C1_Witness ==
    /\ call.n = 2
    /\ pd.e[call.em_eqn] = {}
    /\ call.em_var = "PRESSURE"
    /\ call.status = 0
    /\ lec.R # LecZero.R
    /\ lec.J # LecZero.J

\* C2: a call adds to the accumulator what the same call adds to a zeroed
\* accumulator (it never clears or overwrites, so after any sequence of
\* calls every entry is its old value plus the sum of the calls'
\* contributions), and it changes entries of its own row upd->ep[em_eqn]
\* only.
C2_AdditiveOwnRow ==
    [][ IsCall =>
          \E own \in {assemble_emwave(LecZero, call'.em_eqn, call'.em_var,
                                      call'.em_conjvar).lec} :
             /\ lec'.R = [row \in Rows |-> [i \in Dofs |->
                            lec.R[row][i] + own.R[row][i]]]
             /\ \A row \in Rows, col \in Cols :
                   lec'.J[row][col] =
                      IF own.J[row][col] = LecZero.J[row][col]
                      THEN lec.J[row][col]
                      ELSE [i \in Dofs |-> [j \in Dofs |->
                              FAdd(lec.J[row][col][i][j], own.J[row][col][i][j])]]
             /\ \A row \in Rows \ {upd.ep[call'.em_eqn]} :
                   lec'.R[row] = lec.R[row] /\ lec'.J[row] = lec.J[row] ]_vars

\* C2 witness: after two successful calls for different equations both rows
\* hold residual and Jacobian contributions.
C2_Witness ==
    /\ call.n = 2
    /\ call.status = 0
    /\ \A row \in Rows :
          /\ \E i \in Dofs : lec.R[row][i] # 0
          /\ \E col \in Cols : \E i, j \in Dofs : lec.J[row][col][i][j] # Fin(0)

\* C3 as stated: a call whose em_var is none of the twelve EM variables fails
\* with a negative status and adds nothing, whether or not the equation is
\* active.
C3_Original ==
    [][ (IsCall /\ call'.em_var \notin EMVars)
           => (call'.status < 0 /\ lec' = lec) ]_vars

\* C3 amended: a call whose em_var is none of the twelve EM variables adds
\* nothing; it fails with a negative status when the equation is active, and
\* returns 0 (the inactive-equation no-op) when the equation is inactive.
C3_InvalidSelector ==
    [][ (IsCall /\ call'.em_var \notin EMVars)
           => /\ lec' = lec
              /\ pd.e[call'.em_eqn] # {} => call'.status < 0
              /\ pd.e[call'.em_eqn] = {} => call'.status = 0 ]_vars

\* C3 witness: a call for an active equation with an em_var that is no EM
\* variable has failed on an accumulator that holds contributions.
C3_Witness ==
    /\ call.n = 2
    /\ call.em_var \notin EMVars
    /\ pd.e[call.em_eqn] # {}
    /\ call.status < 0
    /\ lec.R # LecZero.R

\* The Cartesian component of an EM variable, from its name.
ComponentOf(var) ==
    CASE var \in {"EM_E1_REAL", "EM_E1_IMAG", "EM_H1_REAL", "EM_H1_IMAG"} -> 0
      [] var \in {"EM_E2_REAL", "EM_E2_IMAG", "EM_H2_REAL", "EM_H2_IMAG"} -> 1
      [] var \in {"EM_E3_REAL", "EM_E3_IMAG", "EM_H3_REAL", "EM_H3_IMAG"} -> 2

\* A of C10: the advection part of the residual increment of test function i.
C10_A(eqn, em_var, i) ==
    IF "T_ADVECTION" \in pd.e[eqn]
    THEN (Coefficients(em_var).emf_coeff * FieldSelect(em_var).EMF
            + Coefficients(em_var).conj_coeff * FieldSelect(em_var).EMF_conj)
           * bf.phi[eqn][i] * bf.detJ[eqn] * fv.h3 * fv.wt * pd.etm[eqn]["T_ADVECTION"]
    ELSE 0

\* D of C10: the diffusion part of the residual increment of test function i.
C10_D(eqn, em_var, i) ==
    IF "T_DIFFUSION" \in pd.e[eqn]
    THEN (0 - SumBelow(VIM, LAMBDA p : SumBelow(VIM, LAMBDA q :
                 permute(p, q, ComponentOf(em_var)) * bf.grad_phi[eqn][i][p]
                    * Coefficients(em_var).cross_field[q])))
           * bf.detJ[eqn] * fv.h3 * fv.wt * pd.etm[eqn]["T_DIFFUSION"]
    ELSE 0

\* C10: with the residual requested, a successful call for an active equation
\* increases R[peqn][i] by exactly A + D for every test function i of the
\* equation that is not skipped as an inactive extended dof.
C10_ResidualIncrement ==
    [][ (/\ IsCall
         /\ af.Assemble_Residual
         /\ pd.e[call'.em_eqn] # {}
         /\ call'.em_var \in EMVars)
           => \A i \in Dofs :
                 (i < ei.dof[call'.em_eqn] /\ ~XfemSkips(call'.em_eqn, i))
                    => lec'.R[upd.ep[call'.em_eqn]][i]
                          = lec.R[upd.ep[call'.em_eqn]][i]
                               + C10_A(call'.em_eqn, call'.em_var, i)
                               + C10_D(call'.em_eqn, call'.em_var, i) ]_vars

\* C10 witness: a first call for an equation with both terms has left A + D
\* in R[peqn][0], with A and D both nonzero.
C10_Witness ==
    /\ call.n = 1
    /\ call.status = 0
    /\ af.Assemble_Residual
    /\ {"T_ADVECTION", "T_DIFFUSION"} \subseteq pd.e[call.em_eqn]
    /\ call.em_var \in EMVars
    /\ C10_A(call.em_eqn, call.em_var, 0) # 0
    /\ C10_D(call.em_eqn, call.em_var, 0) # 0
    /\ lec.R[upd.ep[call.em_eqn]][0]
          = C10_A(call.em_eqn, call.em_var, 0) + C10_D(call.em_eqn, call.em_var, 0)

\* The coefficients and cross field C11 names for em_var, with
\* eps = (n + i*k)^2 * eps_base: Re(eps) = (n^2 - k^2)*eps_base and
\* Im(eps) = 2*n*k*eps_base.
C11_Expected(em_var) ==
    LET omega == upd.Acoustic_Frequency
        ReEps == (mat.n * mat.n - mat.k * mat.k) * mp.permittivity
        ImEps == 2 * mat.n * mat.k * mp.permittivity
    IN  CASE em_var \in {"EM_E1_REAL", "EM_E2_REAL", "EM_E3_REAL"} ->
               [adv |-> omega * ImEps, conj |-> omega * ReEps, cross |-> fv.em_hr]
          [] em_var \in {"EM_E1_IMAG", "EM_E2_IMAG", "EM_E3_IMAG"} ->
               [adv |-> omega * ImEps, conj |-> 0 - omega * ReEps, cross |-> fv.em_hi]
          [] em_var \in {"EM_H1_REAL", "EM_H2_REAL", "EM_H3_REAL"} ->
               [adv |-> 0, conj |-> 0 - omega * mag_permeability, cross |-> fv.em_er]
          [] em_var \in {"EM_H1_IMAG", "EM_H2_IMAG", "EM_H3_IMAG"} ->
               [adv |-> 0, conj |-> omega * mag_permeability, cross |-> fv.em_ei]

\* n = 1, k = 0, omega = 1 and unit base permittivity.
C11_Vacuum ==
    mat.n = 1 /\ mat.k = 0 /\ upd.Acoustic_Frequency = 1 /\ mp.permittivity = 1

\* C11: a call selects the advection coefficient, the conjugate coefficient
\* and the cross field by the family (E or H) and part (real or imaginary) of
\* em_var as C11_Expected gives them, and the residual it adds is built from
\* them; for n = 1, k = 0, omega = 1 and unit base permittivity an E-real call
\* has advection coefficient 0 and conjugate coefficient 1, and adds nothing
\* to the Jacobian block of em_var itself.
C11_CoefficientSelection ==
    [][ (/\ IsCall
         /\ pd.e[call'.em_eqn] # {}
         /\ call'.em_var \in EMVars)
           => \E co \in {Coefficients(call'.em_var)}, ex \in {C11_Expected(call'.em_var)} :
                 /\ co.emf_coeff = ex.adv
                 /\ co.conj_coeff = ex.conj
                 /\ co.cross_field = ex.cross
                 /\ af.Assemble_Residual =>
                       \A i \in Dofs :
                          Visits(call'.em_eqn, i) =>
                             lec'.R[upd.ep[call'.em_eqn]][i] - lec.R[upd.ep[call'.em_eqn]][i]
                                = (IF "T_ADVECTION" \in pd.e[call'.em_eqn]
                                   THEN (ex.adv * FieldSelect(call'.em_var).EMF
                                           + ex.conj * FieldSelect(call'.em_var).EMF_conj)
                                          * bf.phi[call'.em_eqn][i] * bf.detJ[call'.em_eqn]
                                          * fv.h3 * fv.wt * pd.etm[call'.em_eqn]["T_ADVECTION"]
                                   ELSE 0)
                                  + (IF "T_DIFFUSION" \in pd.e[call'.em_eqn]
                                     THEN (0 - SumBelow(VIM, LAMBDA p : SumBelow(VIM, LAMBDA q :
                                               permute(p, q, ComponentOf(call'.em_var))
                                                 * bf.grad_phi[call'.em_eqn][i][p] * ex.cross[q])))
                                            * bf.detJ[call'.em_eqn] * fv.h3 * fv.wt
                                            * pd.etm[call'.em_eqn]["T_DIFFUSION"]
                                     ELSE 0)
                 /\ (C11_Vacuum /\ call'.em_var \in {"EM_E1_REAL", "EM_E2_REAL", "EM_E3_REAL"}) =>
                       /\ co.emf_coeff = 0
                       /\ co.conj_coeff = 1
                       /\ lec'.J[upd.ep[call'.em_eqn]][upd.vp[call'.em_var]]
                             = lec.J[upd.ep[call'.em_eqn]][upd.vp[call'.em_var]] ]_vars

\* C11 witness: in the vacuum-like medium a first call for the E-real
\* variable EM_E2_REAL with the advection term and the Jacobian requested has
\* left the block of EM_E2_REAL zero and put the conjugate coefficient 1 into
\* the block of EM_E2_IMAG.
C11_Witness ==
    /\ call.n = 1
    /\ call.status = 0
    /\ C11_Vacuum
    /\ call.em_var = "EM_E2_REAL"
    /\ call.em_conjvar = "EM_E2_IMAG"
    /\ "T_ADVECTION" \in pd.e[call.em_eqn]
    /\ af.Assemble_Jacobian
    /\ af.Assemble_Residual
    /\ pd.v["EM_E2_REAL"] # 0
    /\ lec.J[upd.ep[call.em_eqn]][upd.vp["EM_E2_REAL"]] = LecZero.J[0][upd.vp["EM_E2_REAL"]]
    /\ lec.J[upd.ep[call.em_eqn]][upd.vp["EM_E2_IMAG"]][0][0]
          = Fin(bf.phi[call.em_eqn][0] * bf.phi["EM_E2_IMAG"][0] * bf.detJ[call.em_eqn]
                  * fv.wt * fv.h3 * pd.etm[call.em_eqn]["T_ADVECTION"])
    /\ lec.J[upd.ep[call.em_eqn]][upd.vp["EM_E2_IMAG"]][0][0] # Fin(0)
    /\ lec.R[upd.ep[call.em_eqn]][0] # 0

\* The real/imaginary partner of an EM variable.
C12_Partner(var) ==
    IF var \in {"EM_E1_REAL", "EM_E2_REAL", "EM_E3_REAL",
                "EM_H1_REAL", "EM_H2_REAL", "EM_H3_REAL"}
    THEN VarPlus(var, 3) ELSE VarPlus(var, -3)

\* Component b of the cross field of em_var: the H vector of the same part
\* for an E variable, the E vector of the same part for an H variable.
C12_CrossVar(em_var, b) ==
    CASE em_var \in {"EM_E1_REAL", "EM_E2_REAL", "EM_E3_REAL"} -> VarPlus("EM_H1_REAL", b)
      [] em_var \in {"EM_E1_IMAG", "EM_E2_IMAG", "EM_E3_IMAG"} -> VarPlus("EM_H1_IMAG", b)
      [] em_var \in {"EM_H1_REAL", "EM_H2_REAL", "EM_H3_REAL"} -> VarPlus("EM_E1_REAL", b)
      [] em_var \in {"EM_H1_IMAG", "EM_H2_IMAG", "EM_H3_IMAG"} -> VarPlus("EM_E1_IMAG", b)

\* det_J*h3*wt*etm of term t, 0 when the equation does not carry the term.
C12_Scale(eqn, t) ==
    IF t \in pd.e[eqn] THEN bf.detJ[eqn] * fv.h3 * fv.wt * pd.etm[eqn][t] ELSE 0

\* The change of the residual increment of test function i per unit change
\* of dof j of the EM variable u, in a call for eqn with em_var: u enters the
\* residual as the primary unknown, as its partner, and as component b < bound
\* of the cross field.
C12_Derivative(eqn, em_var, u, i, j, bound) ==
    (IF u = em_var
     THEN bf.phi[eqn][i] * C11_Expected(em_var).adv * bf.phi[u][j]
             * C12_Scale(eqn, "T_ADVECTION")
     ELSE 0)
    + (IF u = C12_Partner(em_var)
       THEN bf.phi[eqn][i] * C11_Expected(em_var).conj * bf.phi[u][j]
               * C12_Scale(eqn, "T_ADVECTION")
       ELSE 0)
    + SumBelow(bound, LAMBDA b :
         IF u = C12_CrossVar(em_var, b)
         THEN (0 - SumBelow(VIM, LAMBDA p :
                       permute(p, b, ComponentOf(em_var)) * bf.grad_phi[eqn][i][p]))
                 * bf.phi[u][j] * C12_Scale(eqn, "T_DIFFUSION")
         ELSE 0)

\* C12: with the Jacobian requested, a call whose em_conjvar is the partner of
\* em_var adds to J[peqn][vp[u]][i][j], for every active EM variable u, every
\* test function i visited and every dof j of u, exactly the derivative of the
\* residual increment with respect to that dof: the primary term, the
\* conjugate term, and the curl term for each cross field component b < VIM.
\* The code loops the cross field blocks to pd->Num_Dim, so with Num_Dim < VIM
\* the block of the last component is missing and this does not hold.
C12_JacobianConsistency ==
    [][ (/\ IsCall
         /\ af.Assemble_Jacobian
         /\ pd.e[call'.em_eqn] # {}
         /\ call'.em_var \in EMVars
         /\ call'.em_conjvar = C12_Partner(call'.em_var))
           => \A u \in EMVars, i \in Dofs, j \in Dofs :
                 (pd.v[u] # 0 /\ Visits(call'.em_eqn, i) /\ j < ei.dof[u])
                    => lec'.J[upd.ep[call'.em_eqn]][upd.vp[u]][i][j]
                          = FAdd(lec.J[upd.ep[call'.em_eqn]][upd.vp[u]][i][j],
                                 Fin(C12_Derivative(call'.em_eqn, call'.em_var, u, i, j, VIM)))
      ]_vars

\* The partial derivatives of the coefficient formulas of em_var with respect
\* to n and k: for an E variable d(omega*Im(eps))/dn = 2*omega*k*eps_base,
\* d(omega*Im(eps))/dk = 2*omega*n*eps_base, d(+-omega*Re(eps))/dn =
\* +-2*omega*n*eps_base, d(+-omega*Re(eps))/dk = -+2*omega*k*eps_base; all zero
\* for an H variable.
C13_Partials(em_var) ==
    LET w2 == 2 * upd.Acoustic_Frequency * mp.permittivity
    IN  CASE em_var \in {"EM_E1_REAL", "EM_E2_REAL", "EM_E3_REAL"} ->
               [adv_dn |-> w2 * mat.k, adv_dk |-> w2 * mat.n,
                conj_dn |-> w2 * mat.n, conj_dk |-> 0 - w2 * mat.k]
          [] em_var \in {"EM_E1_IMAG", "EM_E2_IMAG", "EM_E3_IMAG"} ->
               [adv_dn |-> w2 * mat.k, adv_dk |-> w2 * mat.n,
                conj_dn |-> 0 - w2 * mat.n, conj_dk |-> w2 * mat.k]
          [] OTHER ->
               [adv_dn |-> 0, adv_dk |-> 0, conj_dn |-> 0, conj_dk |-> 0]

\* The chain-rule derivative of the residual advection term of test function
\* i, for the sensitivities dn and dk of n and k to one dof.
C13_ChainRule(eqn, em_var, i, dn, dk) ==
    bf.phi[eqn][i]
      * (FieldSelect(em_var).EMF
            * (C13_Partials(em_var).adv_dn * dn + C13_Partials(em_var).adv_dk * dk)
         + FieldSelect(em_var).EMF_conj
            * (C13_Partials(em_var).conj_dn * dn + C13_Partials(em_var).conj_dk * dk))
      * C12_Scale(eqn, "T_ADVECTION")

\* C13: with the Jacobian requested, a call adds to J[peqn][vp[TEMPERATURE]][i][j]
\* the chain-rule derivative of the residual advection term through dn/dT_j
\* and dk/dT_j, taken with the true partial derivatives of the coefficient
\* formulas, and adds the same expression with dn/dC[w][j], dk/dC[w][j] to
\* J[peqn][MAX_PROB_VAR + w][i][j] for each species w < Num_Species_Eqn.  The
\* code takes coeff/n and coeff/k for the partials, so this does not hold.
C13_ChainRuleBlocks ==
    [][ (/\ IsCall
         /\ af.Assemble_Jacobian
         /\ pd.e[call'.em_eqn] # {}
         /\ call'.em_var \in EMVars)
           => \A i \in Dofs :
                 Visits(call'.em_eqn, i) =>
                    /\ pd.v["TEMPERATURE"] # 0 =>
                          \A j \in Dofs :
                             j < ei.dof["TEMPERATURE"] =>
                                lec'.J[upd.ep[call'.em_eqn]][upd.vp["TEMPERATURE"]][i][j]
                                   = FAdd(lec.J[upd.ep[call'.em_eqn]][upd.vp["TEMPERATURE"]][i][j],
                                          Fin(C13_ChainRule(call'.em_eqn, call'.em_var, i,
                                                            mat.d_n.T[j], mat.d_k.T[j])))
                    /\ pd.v["MASS_FRACTION"] # 0 =>
                          \A w \in 0 .. (MAX_CONC - 1), j \in Dofs :
                             (w < pd.Num_Species_Eqn /\ j < ei.dof["MASS_FRACTION"]) =>
                                lec'.J[upd.ep[call'.em_eqn]][SpeciesCol(w)][i][j]
                                   = FAdd(lec.J[upd.ep[call'.em_eqn]][SpeciesCol(w)][i][j],
                                          Fin(C13_ChainRule(call'.em_eqn, call'.em_var, i,
                                                            mat.d_n.C[w][j], mat.d_k.C[w][j])))
      ]_vars

\* The curl sum of the residual of test function i with g(p) in the place of
\* grad_phi_i[p]: - sum over p, q < VIM of permute(p,q,dir)*g(p)*cross_field[q].
C14_Curl(em_var, g(_)) ==
    0 - SumBelow(VIM, LAMBDA p : SumBelow(VIM, LAMBDA q :
            permute(p, q, ComponentOf(em_var)) * g(p) * C11_Expected(em_var).cross[q]))

\* The product-rule derivative of the residual diffusion term of test
\* function i with respect to mesh dof (b, j): grad_phi_i replaced by
\* d_grad_phi_dmesh, det_J replaced by d_det_J_dm, h3 replaced by dh3dq[b]*phi_j.
C14_DiffusionDerivative(eqn, em_var, b, i, j) ==
    LET dh3  == fv.dh3dq[b] * bf.phi[VarPlus("MESH_DISPLACEMENT1", b)][j]
        ddet == bf.d_det_J_dm[eqn][b][j]
        curl == C14_Curl(em_var, LAMBDA p : bf.grad_phi[eqn][i][p])
    IN  IF "T_DIFFUSION" \in pd.e[eqn]
        THEN ( C14_Curl(em_var, LAMBDA p : bf.d_grad_phi_dmesh[eqn][i][p][b][j])
                  * bf.detJ[eqn] * fv.h3 * fv.wt
               + curl * ddet * fv.h3 * fv.wt
               + curl * bf.detJ[eqn] * dh3 * fv.wt )
             * pd.etm[eqn]["T_DIFFUSION"]
        ELSE 0

\* The product-rule derivative of the residual advection term: the
\* coefficients replaced by their sensitivities through dn/dX[b][j] and
\* dk/dX[b][j] (with the coefficient partials the call uses), det_J replaced
\* by d_det_J_dm, h3 replaced by dh3dq[b]*phi_j.
C14_AdvectionDerivative(eqn, em_var, b, i, j) ==
    LET dh3  == fv.dh3dq[b] * bf.phi[VarPlus("MESH_DISPLACEMENT1", b)][j]
        ddet == bf.d_det_J_dm[eqn][b][j]
        c    == [sel |-> FieldSelect(em_var), co |-> Coefficients(em_var)]
        A    == C11_Expected(em_var).adv * c.sel.EMF + C11_Expected(em_var).conj * c.sel.EMF_conj
    IN  IF "T_ADVECTION" \in pd.e[eqn]
        THEN FMul(FAdd(FMul(CoeffSensitivity(c, mat.d_n.X[b][j], mat.d_k.X[b][j]),
                            Fin(bf.phi[eqn][i] * bf.detJ[eqn] * fv.h3 * fv.wt)),
                       Fin(bf.phi[eqn][i] * A * (ddet * fv.h3 + bf.detJ[eqn] * dh3) * fv.wt)),
                  Fin(pd.etm[eqn]["T_ADVECTION"]))
        ELSE Fin(0)

\* C14: with the Jacobian requested, a call adds to
\* J[peqn][vp[MESH_DISPLACEMENT1+b]][i][j], for every active mesh displacement
\* component b and dof j, the product-rule derivative of the residual
\* increment of test function i with respect to mesh dof (b, j); every
\* diffusion sub-term keeps the factor permute(p,q,dir)*cross_field[q].  The
\* diffusion sub-terms of the code are plain sums of gradient components, so
\* this does not hold.
C14_MeshConsistency ==
    [][ (/\ IsCall
         /\ af.Assemble_Jacobian
         /\ pd.e[call'.em_eqn] # {}
         /\ call'.em_var \in EMVars)
           => \A b \in Dims, i \in Dofs, j \in Dofs :
                 (/\ b < pd.Num_Dim
                  /\ pd.v[VarPlus("MESH_DISPLACEMENT1", b)] # 0
                  /\ Visits(call'.em_eqn, i)
                  /\ j < ei.dof[VarPlus("MESH_DISPLACEMENT1", b)])
                    => lec'.J[upd.ep[call'.em_eqn]][upd.vp[VarPlus("MESH_DISPLACEMENT1", b)]][i][j]
                          = FAdd(lec.J[upd.ep[call'.em_eqn]]
                                      [upd.vp[VarPlus("MESH_DISPLACEMENT1", b)]][i][j],
                                 FAdd(C14_AdvectionDerivative(call'.em_eqn, call'.em_var, b, i, j),
                                      Fin(C14_DiffusionDerivative(call'.em_eqn, call'.em_var,
                                                                  b, i, j))))
      ]_vars

----------------------------------------------------------------------------
(* apply_em_farfield_direct *)

\* The case labels of the switches on bc_name.
ETypes  == {"EM_ER_FARFIELD_DIRECT_BC", "EM_EI_FARFIELD_DIRECT_BC"}
HTypes  == {"EM_HR_FARFIELD_DIRECT_BC", "EM_HI_FARFIELD_DIRECT_BC"}
BCNames == ETypes \cup HTypes

\* impedance = csqrt(mag_permeability / (SQUARE(n + I*k) * mp->permittivity))
Impedance(n, k) ==
    Csqrt(CDiv(Cpx(mag_permeability, 0),
               CScale(mp.permittivity, CMul(Cpx(n, k), Cpx(n, k)))))

\* Gamma = (impedance2 - impedance1)/(impedance2 + impedance1)
ReflectionCoefficient(Z1, Z2) == CDiv(CSub(Z2, Z1), CAdd(Z2, Z1))

\* tau = (2.0*impedance2)/(impedance2 + impedance1)
TransmissionCoefficient_of_medium_1(Z1, Z2) == CDiv(CScale(2, Z1), CAdd(Z2, Z1))
TransmissionCoefficient(Z1, Z2) == CDiv(CScale(2, Z2), CAdd(Z2, Z1))

\* incident[c] = bc_data[2+c] + I*bc_data[5+c]
Incident(bc_data) == [c \in Dims |-> Cpx(bc_data[2 + c], bc_data[5 + c])]

\* normal[i] = fv->snormal[i];  E1[i] = fv->em_er[i] + I*fv->em_ei[i]
Normal == [i \in Dims |-> Cpx(fv.snormal[i], 0)]
E1Field == [i \in Dims |-> Cpx(fv.em_er[i], fv.em_ei[i])]

\* The first switch(bc_name), E kinds: cpx_func[p] is assigned (not added
\* to) in every pass of the q and r loops, so it keeps what the last pass,
\* q = r = DIM-1, assigns.
CpxFuncE(p, Gamma, tau, incident) ==
    LET q == DIM - 1
        r == DIM - 1
    IN  CScale(permute(p, q, r),
               CAdd(CMul(CMul(CDiv(tau, CAdd(Cpx(1, 0), Gamma)), Normal[q]), E1Field[r]),
                    CMul(Normal[q], incident[r])))

\* The first switch(bc_name), H kinds:
\* cpx_func[p] = -E1[p]/impedance2*tau/(1+Gamma) - incident[p]/impedance2
CpxFuncH(p, Z2, Gamma, tau, incident) ==
    CSub(CDiv(CMul(CDiv(CNeg(E1Field[p]), Z2), tau), CAdd(Cpx(1, 0), Gamma)),
         CDiv(incident[p], Z2))

\* The second switch(bc_name): var, real, imag and the part of cpx_func that
\* goes to func.  No case matches another bc_name.
KindOf(bc_name) ==
    CASE bc_name = "EM_ER_FARFIELD_DIRECT_BC" -> [var |-> "EM_E1_REAL", real |-> 1, imag |-> 0]
      [] bc_name = "EM_EI_FARFIELD_DIRECT_BC" -> [var |-> "EM_E1_IMAG", real |-> 0, imag |-> 1]
      [] bc_name = "EM_HR_FARFIELD_DIRECT_BC" -> [var |-> "EM_H1_REAL", real |-> 1, imag |-> 0]
      [] bc_name = "EM_HI_FARFIELD_DIRECT_BC" -> [var |-> "EM_H1_IMAG", real |-> 0, imag |-> 1]

\* real*creal(x) + imag*cimag(x)
PartOf(kind, x) == RAdd(RScale(kind.real, creal(x)), RScale(kind.imag, cimag(x)))

\* func on return.
FarfieldFunc(f, bc_name, Z2, Gamma, tau, incident) ==
    IF bc_name \in ETypes
    THEN [p \in Dims |-> PartOf(KindOf(bc_name), CpxFuncE(p, Gamma, tau, incident))]
    ELSE IF bc_name \in HTypes
    THEN [p \in Dims |-> PartOf(KindOf(bc_name), CpxFuncH(p, Z2, Gamma, tau, incident))]
    ELSE f

\* The Jacobian switch, E kinds: d_func[p][gvar][j] is assigned in every pass
\* of the q and r loops (all five loops run to pd->Num_Dim, with no test of
\* pd->v[gvar]); it keeps what the last pass, q = r = Num_Dim-1, assigns.
DFuncE(df, kind, Gamma, tau) ==
    LET nd == pd.Num_Dim
        q  == nd - 1
        r  == nd - 1
        written(gvar) == \E g \in Dims : g < nd /\ gvar = VarPlus(kind.var, g)
        gOf(gvar) == CHOOSE g \in Dims : g < nd /\ gvar = VarPlus(kind.var, g)
        val(p, gvar, j) ==
            PartOf(kind,
                   CScale(permute(p, q, r) * delta(q, gOf(gvar)) * bf.phi[gvar][j],
                          CMul(CDiv(tau, CAdd(Cpx(1, 0), Gamma)), Normal[q])))
    IN  [p \in Dims |-> [gvar \in EMVars |-> [j \in Dofs |->
            IF p < nd /\ written(gvar) /\ j < nd
            THEN val(p, gvar, j)
            ELSE df[p][gvar][j]]]]

\* The Jacobian switch, H kinds: for active gvar, p < DIM, j < ei->dof[var]:
\* d_func[p][gvar][j] = - real*creal(phi_j/impedance2/(1+Gamma)*tau)
\*                      - imag*cimag(phi_j/impedance2/(1+Gamma)*tau)
DFuncH(df, kind, Z2, Gamma, tau) ==
    LET nd == pd.Num_Dim
        written(gvar) ==
            /\ \E g \in Dims : g < nd /\ gvar = VarPlus(kind.var, g)
            /\ pd.v[gvar] # 0
        val(gvar, j) ==
            RScale(-1, PartOf(kind,
                CMul(CDiv(CDiv(Cpx(bf.phi[gvar][j], 0), Z2), CAdd(Cpx(1, 0), Gamma)), tau)))
    IN  [p \in Dims |-> [gvar \in EMVars |-> [j \in Dofs |->
            IF written(gvar) /\ j < ei.dof[kind.var]
            THEN val(gvar, j)
            ELSE df[p][gvar][j]]]]

\* d_func on return.
FarfieldDFunc(df, bc_name, Z2, Gamma, tau) ==
    IF ~af.Assemble_Jacobian THEN df
    ELSE IF bc_name \in ETypes
    THEN DFuncE(df, KindOf(bc_name), Gamma, tau)
    ELSE IF bc_name \in HTypes
    THEN DFuncH(df, KindOf(bc_name), Z2, Gamma, tau)
    ELSE df

\* apply_em_farfield_direct(func, d_func, xi, bc_name, bc_data), called with
\* func holding f and d_func holding df.  n2 is read without ever being
\* assigned (line 656 stores bc_data[0] in ns): it holds whatever value n2
\* the build leaves there.
apply_em_farfield_direct(f, df, bc_name, bc_data, n2) ==
    LET n1         == mat.n
        k1         == mat.k
        k2         == bc_data[1]
        impedance1 == Impedance(n1, k1)
        impedance2 == Impedance(n2, k2)
        Gamma      == ReflectionCoefficient(impedance1, impedance2)
        tau        == TransmissionCoefficient(impedance1, impedance2)
        incident   == Incident(bc_data)
    IN  [ status |-> 0,
          func |-> FarfieldFunc(f, bc_name, impedance2, Gamma, tau, incident),
          d_func |-> FarfieldDFunc(df, bc_name, impedance2, Gamma, tau),
          impedance1 |-> impedance1, impedance2 |-> impedance2,
          Gamma |-> Gamma, tau |-> tau, incident |-> incident ]

----------------------------------------------------------------------------
(* The boundary scenario: calls of apply_em_farfield_direct.  The caller's *)
(* func and d_func hold values of an earlier use (Stale) when the first    *)
(* call is made.                                                           *)

Stale == <<99, 1>>

\* bc_data: exterior n, exterior k, incident real x,y,z, incident imag x,y,z.
BcDataOf(n, k, re, im) ==
    [x \in 0 .. 7 |-> IF x = 0 THEN n ELSE IF x = 1 THEN k
                      ELSE IF x < 5 THEN re[x - 1] ELSE im[x - 4]]

BcData == { BcDataOf(1, 0, <<1, 0, 0>>, <<0, 0, 0>>),
            BcDataOf(2, 1, <<0, 2, 1>>, <<1, 0, -1>>) }

\* The values the unassigned n2 may hold.
N2Values == {1, 2, 3}

CallBCNames == BCNames \cup {"EM_FARFIELD_REAL_NED_BC"}

NoBcCall == [n |-> 0, bc_name |-> "none", bc_data |-> <<>>, n2 |-> 0, status |-> 0,
             impedance1 |-> CZero, impedance2 |-> CZero, Gamma |-> CZero,
             tau |-> CZero, incident |-> <<>>]

InitBoundary ==
    /\ InitEnv
    /\ af.Assemble_Residual
    /\ IdleVolume
    /\ IdleCross
    /\ func = [p \in Dims |-> Stale]
    /\ d_func = [p \in Dims |-> [gvar \in EMVars |-> [j \in Dofs |-> Stale]]]
    /\ bc = NoBcCall
    /\ pc = {}

ApplyEmFarfieldDirect ==
    /\ bc.n < MaxCalls
    /\ \E bc_name \in CallBCNames, bc_data \in BcData, n2 \in N2Values :
          \E r \in {apply_em_farfield_direct(func, d_func, bc_name, bc_data, n2)} :
             /\ func' = r.func
             /\ d_func' = r.d_func
             /\ bc' = [n |-> bc.n + 1, bc_name |-> bc_name, bc_data |-> bc_data,
                       n2 |-> n2, status |-> r.status,
                       impedance1 |-> r.impedance1, impedance2 |-> r.impedance2,
                       Gamma |-> r.Gamma, tau |-> r.tau, incident |-> r.incident]
    /\ UNCHANGED <<envVars, volVars, crossVars, pc>>

NextBoundary == ApplyEmFarfieldDirect

SpecBoundary == InitBoundary /\ [][NextBoundary]_vars

IsBcCall == bc'.n = bc.n + 1

\* normal x (tau/(1+Gamma) * E_interior + incident), component p, as the sum
\* over q and r of the permutation-tensor terms.
C4_TripleSum(p, Gamma, tau, incident) ==
    LET term(q, r) ==
            CScale(permute(p, q, r),
                   CAdd(CMul(CMul(CDiv(tau, CAdd(Cpx(1, 0), Gamma)), Normal[q]), E1Field[r]),
                        CMul(Normal[q], incident[r])))
        row(q) == CAdd(CAdd(term(q, 0), term(q, 1)), term(q, 2))
    IN  CAdd(CAdd(row(0), row(1)), row(2))

\* C4: after a call with an E kind, func[p] is the real part (ER) or the
\* imaginary part (EI) of the full triple sum over q and r of
\* permute(p,q,r) * (tau/(1+Gamma)*normal[q]*E1[r] + normal[q]*incident[r]).
\* The code assigns each term over the previous one, so this does not hold.
C4_FullTripleSum ==
    (bc.n > 0 /\ bc.bc_name \in ETypes) =>
        func = [p \in Dims |->
                   PartOf(KindOf(bc.bc_name), C4_TripleSum(p, bc.Gamma, bc.tau, bc.incident))]

\* C5: the Gamma and tau a call computes satisfy tau = 1 + Gamma, and when
\* the two impedances are equal, Gamma = 0 and tau = 1.
C5_TauIsOnePlusGamma ==
    bc.n > 0 =>
        /\ bc.tau = CAdd(Cpx(1, 0), bc.Gamma)
        /\ CDiv(bc.tau, CAdd(Cpx(1, 0), bc.Gamma)) = Cpx(1, 0)
        /\ bc.impedance1 = bc.impedance2 => (bc.Gamma = CZero /\ bc.tau = Cpx(1, 0))

\* A call whose two impedances differ, are not real, and give a Gamma that is
\* not zero.
C5_Witness ==
    /\ bc.n > 0
    /\ bc.impedance1 # bc.impedance2
    /\ bc.impedance1[2] # 0
    /\ bc.Gamma # CZero
    /\ bc.Gamma[2] # 0

\* C6: the exterior impedance a call uses is
\* sqrt(mu / ((bc_data[0] + i*bc_data[1])^2 * eps_base)) and the incident
\* field is bc_data[2+c] + i*bc_data[5+c]; nothing else decides Z2.  The code
\* never stores bc_data[0] in n2, so this does not hold.
C6_ExteriorFromBcData ==
    bc.n > 0 =>
        /\ bc.impedance2 = Impedance(bc.bc_data[0], bc.bc_data[1])
        /\ bc.incident = [c \in Dims |-> Cpx(bc.bc_data[2 + c], bc.bc_data[5 + c])]

\* C7: a call changes d_func[p][gvar][j] only when the Jacobian is requested,
\* gvar is active (pd->v[gvar] nonzero) and j < ei->dof[gvar], for E and H
\* kinds alike.  The E branch of the code tests neither, so this does not hold.
C7_OnlyActiveSlots ==
    [][IsBcCall =>
        \A p \in Dims, gvar \in EMVars, j \in Dofs :
            d_func'[p][gvar][j] # d_func[p][gvar][j] =>
                /\ af.Assemble_Jacobian
                /\ pd.v[gvar] # 0
                /\ j < ei.dof[gvar]]_vars

\* C8: a call with a bc_name that is none of the four far-field kinds does
\* not return 0 and leaves func and d_func alone.  The code returns 0, so
\* this does not hold.
C8_InvalidKindFatal ==
    [][(IsBcCall /\ bc'.bc_name \notin BCNames) =>
        (bc'.status # 0 /\ func' = func /\ d_func' = d_func)]_vars

----------------------------------------------------------------------------
(* The cross product scenario: complex_cross_vectors(v0, v1, v2) and       *)
(* complex_cross_vectors(v1, v0, v2rev), each into its own output buffer,  *)
(* which starts zeroed or holding earlier values.                          *)

\* The components the operands are drawn from (Gaussian integers).
GaussVals == {Cpx(0, 0), Cpx(1, 0), Cpx(0, 1), Cpx(-1, 2)}

CVecs == [Dims -> GaussVals]

DirtyBuffer == [k \in Dims |-> Cpx(k + 1, 2 - k)]

InitCross ==
    /\ IdleEnv
    /\ IdleVolume
    /\ IdleBoundary
    /\ v0 \in CVecs
    /\ v1 \in CVecs
    /\ \/ pc = {} /\ v2 = ZeroBuffer /\ v2rev = ZeroBuffer
       \/ pc = {"dirty"} /\ v2 = DirtyBuffer /\ v2rev = CVecNeg(DirtyBuffer)
       \/ pc = {"dirty"} /\ v2 = DirtyBuffer /\ v2rev = DirtyBuffer

CrossForward ==
    /\ "forward" \notin pc
    /\ v2' = complex_cross_vectors(v0, v1, v2)
    /\ pc' = pc \cup {"forward"}
    /\ UNCHANGED <<envVars, volVars, bcVars, v0, v1, v2rev>>

CrossReverse ==
    /\ "reverse" \notin pc
    /\ v2rev' = complex_cross_vectors(v1, v0, v2rev)
    /\ pc' = pc \cup {"reverse"}
    /\ UNCHANGED <<envVars, volVars, bcVars, v0, v1, v2>>

NextCross == CrossForward \/ CrossReverse

SpecCross == InitCross /\ [][NextCross]_vars

\* a x b written out by components.
CrossProduct(a, b) ==
    [k \in Dims |->
        CSub(CMul(a[(k + 1) % DIM], b[(k + 2) % DIM]),
             CMul(a[(k + 2) % DIM], b[(k + 1) % DIM]))]

\* C9: whatever the output buffers held, the vector written for (v0, v1) is
\* the cross product v0 x v1 (the permutation-tensor double sum) and is the
\* component-wise negation of the vector written for (v1, v0).
C9_Anticommutative ==
    /\ "forward" \in pc => v2 = CrossProduct(v0, v1)
    /\ {"forward", "reverse"} \subseteq pc => v2 = CVecNeg(v2rev)

\* C9 witness: both products were written over dirty buffers and are nonzero.
C9_Witness ==
    /\ {"dirty", "forward", "reverse"} \subseteq pc
    /\ v2[0] # CZero /\ v2[1] # CZero /\ v2[2] # CZero

====
